---- MODULE Spec2Model ----
(***************************************************************************)
(* Model of the Mapademics POC server (server.mjs with SOC matching):      *)
(* taxonomy load, inverted-index build, matchSocCodes, the optional        *)
(* OpenAI ranker and the POST /api/soc/match handler.                      *)
(*                                                                         *)
(* Text is modelled as TLA+ strings, character by character.  JavaScript   *)
(* objects are records whose DOMAIN holds the fields that are present.     *)
(* Scores are fixed-point numbers in thousandths (1000 = 1.0).             *)
(***************************************************************************)
EXTENDS Integers, Sequences, FiniteSets, TLC

VARIABLES
    pc,             \* position of the module's top-level code
    source,         \* data/soc_codes.json as found on disk
    socCodes,       \* let socCodes = []
    socIndex,       \* const socIndex = new Map()   keyword -> Set<code>
    socByCode,      \* const socByCode = new Map()  code -> entry
    buildPos,       \* number of entries the build loop has processed
    OPENAI_API_KEY, \* whether process.env.OPENAI_API_KEY is set
    reqs,           \* the POST /api/soc/match requests in flight
    lastCall,       \* the most recent call of matchSocCodes (or of tokenize alone)
                    \* and what it returned
    keptCall,       \* an earlier matchSocCodes call and what it returned
    sessions,       \* const sessions = new Map()   token -> expiry timestamp
    now,            \* Date.now(), in milliseconds since the server started
    issued,         \* the tokens generateToken() has returned, with the time of
                    \* their login
    lastAuth        \* the most recent login, verify or routed request and its
                    \* outcome

\* the state of the session store and of the clock
authVars == <<sessions, now, issued, lastAuth>>

vars == <<pc, source, socCodes, socIndex, socByCode, buildPos,
          OPENAI_API_KEY, reqs, lastCall, keptCall, sessions, now, issued, lastAuth>>

-----------------------------------------------------------------------------
(* Bounds of the model *)

MaxEntries == 2

MaxTopN == 2

MaxTriples == 1

-----------------------------------------------------------------------------
(* JavaScript values *)

\* The value `undefined` (a Map key, or the value of an absent field).
undefined == "<undefined>"

\* o.k for an object o
Get(o, k) == IF k \in DOMAIN o THEN o[k] ELSE undefined

\* Boolean(v) for a string-or-undefined v
Truthy(v) == v # undefined /\ v # ""

\* `${v}` for a string-or-undefined v
Str(v) == IF v = undefined THEN "undefined" ELSE v

\* v || ''
OrEmpty(v) == IF Truthy(v) THEN v ELSE ""

CharAt(s, i) == SubSeq(s, i, i)

-----------------------------------------------------------------------------
(* tokenize *)

UpperCase == "ABCDEFGHIJKLMNOPQRSTUVWXYZ"

LowerCase == "abcdefghijklmnopqrstuvwxyz"

Digits == "0123456789"

CharsOf(s) == {CharAt(s, i) : i \in 1..Len(s)}

\* the lower-case letter of each upper-case letter
LowerOf ==
    [c \in CharsOf(UpperCase) |->
        CharAt(LowerCase, CHOOSE i \in 1..Len(UpperCase) : CharAt(UpperCase, i) = c)]

ToLowerChar(c) == IF c \in DOMAIN LowerOf THEN LowerOf[c] ELSE c

\* \s
IsSpace(c) == c \in {" ", "\t", "\n"}

\* [a-z0-9\s]
KeptChars == CharsOf(LowerCase) \cup CharsOf(Digits) \cup {" ", "\t", "\n"}

RECURSIVE LowerFrom(_, _)
LowerFrom(s, i) ==
    IF i > Len(s) THEN "" ELSE ToLowerChar(CharAt(s, i)) \o LowerFrom(s, i + 1)

toLowerCase(s) == LowerFrom(s, 1)

\* .replace(/[^a-z0-9\s]/g, ' ')
RECURSIVE ReplaceFrom(_, _)
ReplaceFrom(s, i) ==
    IF i > Len(s) THEN ""
    ELSE (IF CharAt(s, i) \in KeptChars THEN CharAt(s, i) ELSE " ")
         \o ReplaceFrom(s, i + 1)

ReplaceNonAlnum(s) == ReplaceFrom(s, 1)

\* .split(/\s+/): the pieces between runs of whitespace; a leading or a
\* trailing run leaves an empty first or last piece, and "" splits to [""].
RECURSIVE SplitFrom(_, _, _, _)
SplitFrom(s, i, cur, out) ==
    IF i > Len(s) THEN Append(out, cur)
    ELSE IF IsSpace(CharAt(s, i))
         THEN IF i > 1 /\ IsSpace(CharAt(s, i - 1))
              THEN SplitFrom(s, i + 1, cur, out)
              ELSE SplitFrom(s, i + 1, "", Append(out, cur))
         ELSE SplitFrom(s, i + 1, cur \o CharAt(s, i), out)

SplitWhitespace(s) == SplitFrom(s, 1, "", <<>>)

STOP_WORDS ==
    {"the", "and", "for", "are", "but", "not", "you", "all", "can", "had",
     "her", "was", "one", "our", "out", "has", "have", "from", "with", "they",
     "been", "this", "that", "will", "each", "make", "like", "than", "them",
     "then", "its", "over", "such", "other", "into", "more", "some", "very",
     "when", "what", "also", "only", "just", "about", "which"}

\* KeepWord with the length test off by one: t.length >= 2
KeepWordFrom2(w) == Len(w) >= 2 /\ w \notin STOP_WORDS

\* the filter callback of tokenize
KeepWord(w) == Len(w) > 2 /\ w \notin STOP_WORDS

RECURSIVE FilterWords(_)
FilterWords(ws) ==
    IF ws = <<>> THEN <<>>
    ELSE (IF KeepWord(Head(ws)) THEN <<Head(ws)>> ELSE <<>>)
         \o FilterWords(Tail(ws))

tokenize(text) ==
    FilterWords(SplitWhitespace(ReplaceNonAlnum(toLowerCase(text))))

\* the bigram loops: `${tokens[i]}_${tokens[i + 1]}` for i < tokens.length - 1
Bigrams(tokens) ==
    [i \in 1..(IF Len(tokens) > 0 THEN Len(tokens) - 1 ELSE 0) |->
        tokens[i] \o "_" \o tokens[i + 1]]

\* String.prototype.includes
Includes(s, t) ==
    \E i \in 1..(Len(s) - Len(t) + 1) : SubSeq(s, i, i + Len(t) - 1) = t

-----------------------------------------------------------------------------
(* Maps and insertion-ordered Sets *)

\* new Map()
EmptyMap == [k \in {} |-> 0]

\* Map.prototype.set
MapSet(m, k, v) == [x \in (DOMAIN m) \cup {k} |-> IF x = k THEN v ELSE m[x]]

InSeq(seq, v) == \E i \in 1..Len(seq) : seq[i] = v

\* Set.prototype.add: a Set iterates in insertion order
SetAdd(seq, v) == IF InSeq(seq, v) THEN seq ELSE Append(seq, v)

-----------------------------------------------------------------------------
(* Build the index *)

\* null (a JSON null in a file or a payload, or a null return value)
null == [isNull |-> TRUE]

IsNull(v) == "isNull" \in DOMAIN v

\* `${soc.title} ${soc.majorGroup || ''} ${soc.minorGroup || ''} ${soc.broadGroup || ''}`
AllText(soc) ==
    Str(Get(soc, "title")) \o " " \o OrEmpty(Get(soc, "majorGroup")) \o " "
    \o OrEmpty(Get(soc, "minorGroup")) \o " " \o OrEmpty(Get(soc, "broadGroup"))

\* IndexKeys with the Set of a key replaced instead of extended:
\* socIndex.set(token, new Set([soc.code]))
RECURSIVE IndexKeysOverwrite(_, _, _)
IndexKeysOverwrite(index, keys, code) ==
    IF keys = <<>> THEN index
    ELSE IndexKeysOverwrite(MapSet(index, Head(keys), <<code>>), Tail(keys), code)

\* for (const token of [...tokens, ...bigrams]) { ... socIndex.get(token).add(soc.code) }
RECURSIVE IndexKeys(_, _, _)
IndexKeys(index, keys, code) ==
    IF keys = <<>> THEN index
    ELSE LET k == Head(keys)
             old == IF k \in DOMAIN index THEN index[k] ELSE <<>>
         IN IndexKeys(MapSet(index, k, SetAdd(old, code)), Tail(keys), code)

\* IndexEntry with the code-to-entry map keyed by title:
\* socByCode.set(soc.title, soc)
IndexEntryByTitle(st, soc) ==
    LET tokens == tokenize(AllText(soc))
    IN [byCode |-> MapSet(st.byCode, Get(soc, "title"), soc),
        index  |-> IndexKeys(st.index, tokens \o Bigrams(tokens), Get(soc, "code"))]

\* IndexEntry with the code-to-entry map written only for a new code:
\* if (!socByCode.has(soc.code)) socByCode.set(soc.code, soc)
IndexEntryFirstWins(st, soc) ==
    LET tokens == tokenize(AllText(soc))
    IN [byCode |-> IF Get(soc, "code") \in DOMAIN st.byCode THEN st.byCode
                   ELSE MapSet(st.byCode, Get(soc, "code"), soc),
        index  |-> IndexKeys(st.index, tokens \o Bigrams(tokens), Get(soc, "code"))]

\* one iteration of the build loop on the maps st = [index, byCode]
IndexEntry(st, soc) ==
    LET tokens == tokenize(AllText(soc))
    IN [byCode |-> MapSet(st.byCode, Get(soc, "code"), soc),
        index  |-> IndexKeys(st.index, tokens \o Bigrams(tokens), Get(soc, "code"))]

\* the maps after the first n iterations of the build loop over entries
RECURSIVE BuildUpTo(_, _)
BuildUpTo(entries, n) ==
    IF n = 0 THEN [byCode |-> EmptyMap, index |-> EmptyMap]
    ELSE IndexEntry(BuildUpTo(entries, n - 1), entries[n])

-----------------------------------------------------------------------------
(* matchSocCodes *)

\* Math.log(n / df) in thousandths, for 1 <= df <= n <= 6
LogTable ==
    << <<0, 0, 0, 0, 0, 0>>,
       <<693, 0, 0, 0, 0, 0>>,
       <<1099, 405, 0, 0, 0, 0>>,
       <<1386, 693, 288, 0, 0, 0>>,
       <<1609, 916, 511, 223, 0, 0>>,
       <<1792, 1099, 693, 405, 182, 0>> >>

Log(n, df) == LogTable[n][df]

RECURSIVE JoinSpace(_)
JoinSpace(parts) ==
    IF parts = <<>> THEN ""
    ELSE IF Len(parts) = 1 THEN parts[1]
    ELSE parts[1] \o " " \o JoinSpace(Tail(parts))

RECURSIVE FilterBoolean(_)
FilterBoolean(vals) ==
    IF vals = <<>> THEN <<>>
    ELSE (IF Truthy(Head(vals)) THEN <<Head(vals)>> ELSE <<>>)
         \o FilterBoolean(Tail(vals))

\* [longName, name, type, degreeDesignation, college, level].filter(Boolean).join(' ')
QueryText(programData) ==
    JoinSpace(FilterBoolean(<<Get(programData, "longName"), Get(programData, "name"),
                              Get(programData, "type"),
                              Get(programData, "degreeDesignation"),
                              Get(programData, "college"), Get(programData, "level")>>))

\* NewScores with the Map hoisted to module scope: it still holds the scores
\* of the call before
NewScoresShared == IF lastCall.called THEN lastCall.scores ELSE <<>>

\* const scores = new Map(): a sequence of <<code, score>> in insertion order
NewScores == <<>>

\* scores.set(code, (scores.get(code) || 0) + weight)
ScoreAdd(scores, code, weight) ==
    IF \E i \in 1..Len(scores) : scores[i][1] = code
    THEN [i \in 1..Len(scores) |->
            IF scores[i][1] = code THEN <<code, scores[i][2] + weight>> ELSE scores[i]]
    ELSE Append(scores, <<code, weight>>)

\* for (const code of matches) scores.set(...)
RECURSIVE ScoreAddAll(_, _, _)
ScoreAddAll(scores, matches, weight) ==
    IF matches = <<>> THEN scores
    ELSE ScoreAddAll(ScoreAdd(scores, Head(matches), weight), Tail(matches), weight)

\* the weight of one index hit: Math.log(socCodes.length / matches.size)
Weight(matches) == Log(Len(socCodes), Len(matches))

\* the unigram loop (factor 1) and the bigram loop (factor 2)
RECURSIVE TokenHits(_, _, _)
TokenHits(scores, tokens, factor) ==
    IF tokens = <<>> THEN scores
    ELSE LET token == Head(tokens) IN
         IF token \notin DOMAIN socIndex
         THEN TokenHits(scores, Tail(tokens), factor)
         ELSE TokenHits(ScoreAddAll(scores, socIndex[token],
                                    Weight(socIndex[token]) * factor),
                        Tail(tokens), factor)

\* TitleMatchCount with the test turned round: if (t.includes(queryLower))
RECURSIVE TitleMatchCountReversed(_, _)
TitleMatchCountReversed(titleTokens, queryLower) ==
    IF titleTokens = <<>> THEN 0
    ELSE (IF Includes(Head(titleTokens), queryLower) THEN 1 ELSE 0)
         + TitleMatchCountReversed(Tail(titleTokens), queryLower)

\* titleMatchCount: the title tokens that occur in the lower-cased query text
RECURSIVE TitleMatchCount(_, _)
TitleMatchCount(titleTokens, queryLower) ==
    IF titleTokens = <<>> THEN 0
    ELSE (IF Includes(queryLower, Head(titleTokens)) THEN 1 ELSE 0)
         + TitleMatchCount(Tail(titleTokens), queryLower)

\* Bonus without the factor 10: const bonus = matchRatio
BonusUnscaled(titleMatchCount, titleTokenCount) ==
    (titleMatchCount * 1000) \div titleTokenCount

\* matchRatio * 10, in thousandths
Bonus(titleMatchCount, titleTokenCount) == (titleMatchCount * 10000) \div titleTokenCount

\* the title loop over socCodes[i..]
RECURSIVE TitleHits(_, _, _)
TitleHits(scores, i, queryLower) ==
    IF i > Len(socCodes) THEN scores
    ELSE LET soc == socCodes[i]
             titleTokens == tokenize(soc.title)
             titleMatchCount == TitleMatchCount(titleTokens, queryLower)
         IN TitleHits(IF titleMatchCount > 0
                      THEN ScoreAdd(scores, Get(soc, "code"),
                                    Bonus(titleMatchCount, Len(titleTokens)))
                      ELSE scores,
                      i + 1, queryLower)

\* soc.title.toLowerCase() throws a TypeError when an entry has no title
TitleThrows == \E i \in 1..Len(socCodes) : "title" \notin DOMAIN socCodes[i]

\* the score accumulator after the three loops
Accumulate(programData) ==
    LET queryText == QueryText(programData)
        queryTokens == tokenize(queryText)
        afterTokens == TokenHits(NewScores, queryTokens, 1)
        afterBigrams == TokenHits(afterTokens, Bigrams(queryTokens), 2)
    IN TitleHits(afterBigrams, 1, toLowerCase(queryText))

\* InsertSorted of a sort that is not stable: an equal score goes first
RECURSIVE InsertSortedUnstable(_, _)
InsertSortedUnstable(sorted, p) ==
    IF sorted = <<>> THEN <<p>>
    ELSE IF Head(sorted)[2] > p[2]
         THEN <<Head(sorted)>> \o InsertSortedUnstable(Tail(sorted), p)
         ELSE <<p>> \o sorted

\* .sort((a, b) => b[1] - a[1]): stable, score descending
RECURSIVE InsertSorted(_, _)
InsertSorted(sorted, p) ==
    IF sorted = <<>> THEN <<p>>
    ELSE IF Head(sorted)[2] >= p[2]
         THEN <<Head(sorted)>> \o InsertSorted(Tail(sorted), p)
         ELSE <<p>> \o sorted

RECURSIVE SortByScore(_)
SortByScore(pairs) ==
    IF pairs = <<>> THEN <<>>
    ELSE InsertSorted(SortByScore(SubSeq(pairs, 1, Len(pairs) - 1)), pairs[Len(pairs)])

Min(a, b) == IF a < b THEN a ELSE b

Max(a, b) == IF a > b THEN a ELSE b

\* .slice(0, topN): a negative end counts from the end of the array
Slice(seq, topN) ==
    SubSeq(seq, 1, IF topN < 0 THEN Max(Len(seq) + topN, 0) ELSE Min(topN, Len(seq)))

\* Math.round(score * 100) / 100, in hundredths
Round2(score) == (score + 5) \div 10

\* ...socByCode.get(code): spreading undefined adds no field
Lookup(code) == IF code \in DOMAIN socByCode THEN socByCode[code] ELSE EmptyMap

\* ({ ...socByCode.get(code), relevanceScore: ... })
ScoredMatch(pair) ==
    LET entry == Lookup(pair[1]) IN
    [f \in (DOMAIN entry) \cup {"relevanceScore"} |->
        IF f = "relevanceScore" THEN Round2(pair[2]) ELSE entry[f]]

\* matchSocCodes(programData, topN): whether it threw and the value it
\* returned, with two of its locals: scores, the accumulator after the three
\* loops, and ranked, the sorted and sliced <<code, score>> pairs that the
\* final map turns into the returned value.
matchSocCodes(programData, topN) ==
    IF TitleThrows
    THEN [threw |-> TRUE, value |-> <<>>, scores |-> <<>>, ranked |-> <<>>]
    ELSE LET scores == Accumulate(programData) IN
         LET ranked == Slice(SortByScore(scores), topN) IN
         [threw |-> FALSE,
          value |-> [i \in 1..Len(ranked) |-> ScoredMatch(ranked[i])],
          scores |-> scores, ranked |-> ranked]

-----------------------------------------------------------------------------
(* Inputs: taxonomy entries, query records, topN *)

\* The entries a soc_codes.json may hold: two entries sharing a code, two
\* entries with the same text and different codes, an entry without a code
\* and an entry without a title.
EntryPool ==
    { [code |-> "15-1", title |-> "The Web-Developers", majorGroup |-> "Computer Jobs"],
      [code |-> "15-1", title |-> "Data Analysts", majorGroup |-> "Computer Jobs",
       minorGroup |-> "Data"],
      [code |-> "29-1", title |-> "Nurses", majorGroup |-> "Health Jobs"],
      [title |-> "Nurses", majorGroup |-> "Health Jobs", broadGroup |-> ""],
      [code |-> "27-1", majorGroup |-> "Art Jobs"] }

RECURSIVE SeqsUpTo(_, _)
SeqsUpTo(S, n) ==
    IF n = 0 THEN {<<>>}
    ELSE LET shorter == SeqsUpTo(S, n - 1) IN
         shorter \cup {Append(t, e) : t \in {u \in shorter : Len(u) = n - 1}, e \in S}

Taxonomies == SeqsUpTo(EntryPool, MaxEntries)

\* The program objects of a request body
Programs ==
    { [longName |-> "Web Design", name |-> "nurses", type |-> "BS"],
      [longName |-> "Computer Jobs", name |-> "CS", level |-> ""],
      [name |-> "NURSES, data-base", college |-> "Health"],
      [cipCode |-> "11.07"] }

TopNs == (-1)..MaxTopN

-----------------------------------------------------------------------------
(* matchSocCodesWithAI *)

\* a || b
Or(a, b) == IF Truthy(a) THEN a ELSE b

\* the callback of aiMatches.map: one triple of the ranker, enriched
Enrich(m) ==
    LET code == Get(m, "code")
        found == code \in DOMAIN socByCode
        local == IF found THEN socByCode[code] ELSE EmptyMap
    IN [code |-> code,
        title |-> Or(Get(local, "title"), Get(m, "title")),
        majorGroup |-> OrEmpty(Get(local, "majorGroup")),
        minorGroup |-> OrEmpty(Get(local, "minorGroup")),
        broadGroup |-> OrEmpty(Get(local, "broadGroup")),
        reason |-> Get(m, "reason"),
        source |-> "ai",
        verified |-> found]

\* CaughtReturn without the try/catch: the error reaches the handler
UncaughtThrow == [threw |-> TRUE, value |-> null]

\* the catch block: the error is logged and null returned
CaughtReturn == [threw |-> FALSE, value |-> null]

\* matchSocCodesWithAI when fetch rejects
WithAIFetchRejected == CaughtReturn

\* matchSocCodesWithAI from `await response.json()` on.  payload.ok tells
\* whether the body parsed; payload.data is the parsed body: null, an object
\* without choices, or an object whose choices[0].message.content is given
\* by what the regular expression and JSON.parse make of it: array = "none"
\* (no [...] in the text), "invalid" (JSON.parse throws) or "valid" (items).
WithAIBody(payload) ==
    IF ~payload.ok THEN CaughtReturn
    ELSE IF IsNull(payload.data) THEN CaughtReturn
    ELSE IF "content" \notin DOMAIN payload.data THEN [threw |-> FALSE, value |-> null]
    ELSE LET content == payload.data.content IN
         IF content.array = "none" THEN [threw |-> FALSE, value |-> null]
         ELSE IF content.array = "invalid" THEN CaughtReturn
         ELSE IF \E i \in 1..Len(content.items) : IsNull(content.items[i])
              THEN CaughtReturn
              ELSE [threw |-> FALSE,
                    value |-> [items |-> [i \in 1..Len(content.items) |->
                                            Enrich(content.items[i])]]]

-----------------------------------------------------------------------------
(* Startup and POST /api/soc/match *)

\* the clients whose requests the server handles
Reqs == {"r1", "r2"}

\* lastCall and keptCall before any call
NoCall == [called |-> FALSE]

\* lastAuth before any request
NoAuth == [op |-> "none"]

NoData == [none |-> TRUE]

NoRes == [status |-> 0]

\* pc: idle, fetch (awaiting fetch), json (awaiting response.json()), done; in
\* match-and-fetch mafFetch and mafJson (awaiting the ranker), lmiFetch and
\* lmiJson (awaiting the labor-market API).
\* local is what matchSocCodes returned; ranker and payload record what the
\* OpenAI call did; matches, sent and lmi are the `matches` of
\* match-and-fetch, the body it sent to the labor-market API and what that
\* API answered; res is the response sent.
IdleReq ==
    [pc |-> "idle", body |-> NoData, local |-> <<>>, ranker |-> "notCalled",
     payload |-> NoData, matches |-> <<>>, sent |-> NoData, lmi |-> NoData,
     res |-> NoRes]

MissingSource == [exists |-> FALSE, parses |-> FALSE, entries |-> <<>>]

UnparsableSource == [exists |-> TRUE, parses |-> FALSE, entries |-> <<>>]

\* The taxonomies of the server runs: well-formed; two entries with one code;
\* an entry with an empty title; an entry without a title; a null entry; an
\* entry without a code; an empty array.
ServerTaxonomies ==
    { << [code |-> "15-1", title |-> "The Web-Developers", majorGroup |-> "Computer Jobs"],
         [code |-> "29-1", title |-> "Nurses", majorGroup |-> "Health Jobs"] >>,
      << [code |-> "15-1", title |-> "The Web-Developers", majorGroup |-> "Computer Jobs"],
         [code |-> "15-1", title |-> "Data Analysts", majorGroup |-> "Computer Jobs",
          minorGroup |-> "Data"] >>,
      << [code |-> "15-1", title |-> "", majorGroup |-> "Web Jobs"] >>,
      << [code |-> "27-1", majorGroup |-> "Web Jobs"] >>,
      << [code |-> "15-1", title |-> "The Web-Developers"], null >>,
      << [title |-> "Nurses", majorGroup |-> "Health Jobs"] >>,
      << >> }

Sources ==
    {MissingSource, UnparsableSource}
    \cup {[exists |-> TRUE, parses |-> TRUE, entries |-> t] : t \in ServerTaxonomies}

ServerPrograms ==
    { [longName |-> "Web Design", name |-> "nurses", type |-> "BS"],
      [name |-> "NURSES, data-base", college |-> "Health"] }

\* The request bodies: topN and useAI, with or without a program
Bodies ==
    {[topN |-> 1, useAI |-> FALSE]}
    \cup {[program |-> p, topN |-> n, useAI |-> u] :
            p \in ServerPrograms, n \in 1..MaxTopN, u \in BOOLEAN}

\* The triples the ranker may return, and null
TriplePool ==
    { [code |-> "15-1", title |-> "AI Web", reason |-> "web"],
      [code |-> "99-9", title |-> "Ghost", reason |-> "guess"],
      null }

\* What response.json() may deliver
Payloads ==
    { [ok |-> FALSE, data |-> NoData],
      [ok |-> TRUE, data |-> null],
      [ok |-> TRUE, data |-> [error |-> "invalid_api_key"]],
      [ok |-> TRUE, data |-> [content |-> [array |-> "none", items |-> <<>>]]],
      [ok |-> TRUE, data |-> [content |-> [array |-> "invalid", items |-> <<>>]]] }
    \cup {[ok |-> TRUE, data |-> [content |-> [array |-> "valid", items |-> items]]] :
            items \in SeqsUpTo(TriplePool, MaxTriples)}

Init ==
    /\ pc = "load"
    /\ source \in Sources
    /\ socCodes = <<>>
    /\ socIndex = EmptyMap
    /\ socByCode = EmptyMap
    /\ buildPos = 0
    /\ OPENAI_API_KEY \in BOOLEAN
    /\ reqs = [r \in Reqs |-> IdleReq]
    /\ lastCall = NoCall
    /\ keptCall = NoCall
    /\ sessions = EmptyMap
    /\ now = 0
    /\ issued = EmptyMap
    /\ lastAuth = NoAuth

\* if (existsSync(socFilePath)) socCodes = JSON.parse(readFileSync(...))
LoadSocCodes ==
    /\ pc = "load"
    /\ IF ~source.exists
       THEN pc' = "build" /\ UNCHANGED socCodes
       ELSE IF ~source.parses
            THEN pc' = "crashed" /\ UNCHANGED socCodes
            ELSE pc' = "build" /\ socCodes' = source.entries
    /\ UNCHANGED <<source, socIndex, socByCode, buildPos, OPENAI_API_KEY, reqs,
                   lastCall, keptCall>>
    /\ UNCHANGED authVars

\* one iteration of `for (const soc of socCodes)`; soc.code of null throws
BuildStep ==
    /\ pc = "build"
    /\ buildPos < Len(socCodes)
    /\ LET soc == socCodes[buildPos + 1] IN
       IF IsNull(soc)
       THEN pc' = "crashed" /\ UNCHANGED <<socIndex, socByCode, buildPos>>
       ELSE LET st == IndexEntry([byCode |-> socByCode, index |-> socIndex], soc) IN
            /\ socIndex' = st.index
            /\ socByCode' = st.byCode
            /\ buildPos' = buildPos + 1
            /\ UNCHANGED pc
    /\ UNCHANGED <<source, socCodes, OPENAI_API_KEY, reqs, lastCall, keptCall>>
    /\ UNCHANGED authVars

\* app.listen(PORT, ...): the build loop is over
Listen ==
    /\ pc = "build"
    /\ buildPos = Len(socCodes)
    /\ pc' = "serving"
    /\ UNCHANGED <<source, socCodes, socIndex, socByCode, buildPos, OPENAI_API_KEY,
                   reqs, lastCall, keptCall>>
    /\ UNCHANGED authVars

\* res.status(code).json({ error })
ErrorRes(status) == [status |-> status]

\* MatchRes with the ranker's list taking the place of the local matches, as
\* `if (ai) matches = ai` does in match-and-fetch
MatchResMerged(body, localMatches, ai) ==
    IF ai.threw THEN ErrorRes(500)
    ELSE [status |-> 200,
          program |-> [name |-> Or(Get(body.program, "longName"), Get(body.program, "name")),
                       code |-> Get(body.program, "code"),
                       cipCode |-> Get(body.program, "cipCode")],
          localMatches |-> IF IsNull(ai.value) THEN localMatches ELSE ai.value.items,
          aiMatches |-> ai.value,
          aiAvailable |-> OPENAI_API_KEY]

\* res.json({ program, localMatches, aiMatches, aiAvailable }) of the handler,
\* or its catch block when the ranker call threw
MatchRes(body, localMatches, ai) ==
    IF ai.threw THEN ErrorRes(500)
    ELSE [status |-> 200,
          program |-> [name |-> Or(Get(body.program, "longName"), Get(body.program, "name")),
                       code |-> Get(body.program, "code"),
                       cipCode |-> Get(body.program, "cipCode")],
          localMatches |-> localMatches,
          aiMatches |-> ai.value,
          aiAvailable |-> OPENAI_API_KEY]

\* let aiMatches = null, when the ranker is not called
NotCalled == [threw |-> FALSE, value |-> null]

\* StoredAfterMatch with the score written into the stored entry:
\* Object.assign(socByCode.get(code), { relevanceScore })
RECURSIVE StoredAfterAssign(_, _)
StoredAfterAssign(byCode, ranked) ==
    IF ranked = <<>> THEN byCode
    ELSE StoredAfterAssign(MapSet(byCode, Head(ranked)[1], ScoredMatch(Head(ranked))),
                           Tail(ranked))

\* socByCode after the final map of matchSocCodes over the ranked pairs:
\* ({ ...socByCode.get(code), relevanceScore }) copies the fields of the
\* stored entry into a new object and writes the score there
StoredAfterMatch(byCode, ranked) == byCode

\* The handler of POST /api/soc/match up to its first await
SocMatchStart(r, body) ==
    /\ pc = "serving"
    /\ reqs[r].pc = "idle"
    /\ IF "program" \notin DOMAIN body
       THEN reqs' = [reqs EXCEPT ![r] =
                [IdleReq EXCEPT !.pc = "done", !.body = body, !.res = ErrorRes(400)]]
       ELSE LET m == matchSocCodes(body.program, body.topN) IN
            IF m.threw
            THEN reqs' = [reqs EXCEPT ![r] =
                     [IdleReq EXCEPT !.pc = "done", !.body = body, !.res = ErrorRes(500)]]
            ELSE IF body.useAI /\ OPENAI_API_KEY
                 THEN reqs' = [reqs EXCEPT ![r] =
                          [IdleReq EXCEPT !.pc = "fetch", !.body = body,
                                          !.local = m.value, !.ranker = "pending"]]
                 ELSE reqs' = [reqs EXCEPT ![r] =
                          [IdleReq EXCEPT !.pc = "done", !.body = body,
                                          !.local = m.value,
                                          !.res = MatchRes(body, m.value, NotCalled)]]
    /\ socByCode' = IF "program" \in DOMAIN body
                    THEN StoredAfterMatch(socByCode,
                                          matchSocCodes(body.program, body.topN).ranked)
                    ELSE socByCode
    /\ UNCHANGED <<pc, source, socCodes, socIndex, buildPos, OPENAI_API_KEY,
                   lastCall, keptCall>>
    /\ UNCHANGED authVars

\* `await fetch(...)` settles: it resolves, or it rejects and the catch block
\* returns null to the handler, which responds
FetchSettles(r, resolves) ==
    /\ reqs[r].pc = "fetch"
    /\ IF resolves
       THEN reqs' = [reqs EXCEPT ![r].pc = "json", ![r].ranker = "fetched"]
       ELSE reqs' = [reqs EXCEPT ![r].pc = "done", ![r].ranker = "fetchRejected",
                                 ![r].res = MatchRes(reqs[r].body, reqs[r].local,
                                                     WithAIFetchRejected)]
    /\ UNCHANGED <<pc, source, socCodes, socIndex, socByCode, buildPos, OPENAI_API_KEY,
                   lastCall, keptCall>>
    /\ UNCHANGED authVars

\* `await response.json()` settles; matchSocCodesWithAI runs to its end and
\* the handler responds
BodySettles(r, payload) ==
    /\ reqs[r].pc = "json"
    /\ reqs' = [reqs EXCEPT ![r].pc = "done", ![r].ranker = "answered",
                            ![r].payload = payload,
                            ![r].res = MatchRes(reqs[r].body, reqs[r].local,
                                                WithAIBody(payload))]
    /\ UNCHANGED <<pc, source, socCodes, socIndex, socByCode, buildPos, OPENAI_API_KEY,
                   lastCall, keptCall>>
    /\ UNCHANGED authVars

Next ==
    \/ LoadSocCodes
    \/ BuildStep
    \/ Listen
    \/ \E r \in Reqs, body \in Bodies : SocMatchStart(r, body)
    \/ \E r \in Reqs, resolves \in BOOLEAN : FetchSettles(r, resolves)
    \/ \E r \in Reqs, payload \in Payloads : BodySettles(r, payload)

Spec == Init /\ [][Next]_vars

\* The module's top-level code runs to its end: the load, every iteration of
\* the build loop and app.listen are taken.  The code sets no timeout and no
\* abort signal on its fetch, so no step of a handler is taken before the
\* promise it awaits settles, and nothing makes a pending promise settle.
SpecLive ==
    /\ Spec
    /\ WF_vars(LoadSocCodes)
    /\ WF_vars(Listen)
    /\ []<>(~(pc = "build" /\ buildPos < Len(socCodes)))

-----------------------------------------------------------------------------
(* POST /api/soc/match-and-fetch *)

\* topN = 5, the default of the handler
MafDefaultTopN == 5

\* { ...a, ...b }
Merge(a, b) == [f \in (DOMAIN a) \cup (DOMAIN b) |-> IF f \in DOMAIN b THEN b[f] ELSE a[f]]

\* The request bodies of match-and-fetch: with or without a program, topN
\* and useAI
MafBodies ==
    {[useAI |-> FALSE]}
    \cup {[program |-> p, useAI |-> u] : p \in ServerPrograms, u \in BOOLEAN}
    \cup {[program |-> p, topN |-> 1, useAI |-> u] : p \in ServerPrograms, u \in BOOLEAN}

\* const { topN = 5 } = req.body
MafTopN(body) == IF "topN" \in DOMAIN body THEN body.topN ELSE MafDefaultTopN

\* The occupations the labor-market API may return: one with labor-market
\* data for code 15-1, one without for code 29-1
Occupations ==
    << [socCode |-> "15-1",
        laborMarketData |-> [medianAnnualSalary |-> 90000, totalEmployment |-> 1500,
                             forecastedEmploymentGrowth |-> 8,
                             demand |-> [score |-> 4, factors |-> "growth"],
                             typicalDegreeLevel |-> "Bachelor"]],
       [socCode |-> "29-1"] >>

\* What the labor-market API may answer, once fetch resolved: a body that is
\* not JSON; JSON null; an error status with a JSON error body; an answer
\* without matchedOccupations; an answer with them.  httpOk is response.ok.
LmiPayloads ==
    { [parses |-> FALSE, httpOk |-> TRUE, body |-> NoData],
      [parses |-> TRUE, httpOk |-> TRUE, body |-> null],
      [parses |-> TRUE, httpOk |-> FALSE, body |-> [error |-> "Unauthorized"]],
      [parses |-> TRUE, httpOk |-> TRUE, body |-> [data |-> [warnings |-> <<"no region">>]]],
      [parses |-> TRUE, httpOk |-> TRUE, body |-> [data |-> [matchedOccupations |-> Occupations]]] }

\* lmiData.data?.matchedOccupations || []
OccupationsOf(lmiData) ==
    IF "data" \in DOMAIN lmiData /\ "matchedOccupations" \in DOMAIN lmiData.data
    THEN lmiData.data.matchedOccupations ELSE <<>>

\* lmiData.data?.warnings || []
WarningsOf(lmiData) ==
    IF "data" \in DOMAIN lmiData /\ "warnings" \in DOMAIN lmiData.data
    THEN lmiData.data.warnings ELSE <<>>

\* the callback of matches.map: one match merged with its occupation
EnrichWithLmi(m, occupations) ==
    LET found == \E i \in 1..Len(occupations) : occupations[i].socCode = Get(m, "code")
        occ == occupations[CHOOSE i \in 1..Len(occupations) :
                              /\ occupations[i].socCode = Get(m, "code")
                              /\ \A j \in 1..(i - 1) : occupations[j].socCode # Get(m, "code")]
    IN IF ~found
       THEN Merge(m, [lmiData |-> null, hasLMI |-> FALSE])
       ELSE IF "laborMarketData" \notin DOMAIN occ
            THEN Merge(m, [lmiData |-> occ, hasLMI |-> TRUE])
            ELSE LET lmd == occ.laborMarketData
                     demand == IF "demand" \in DOMAIN lmd THEN lmd.demand ELSE EmptyMap
                 IN Merge(m, [lmiData |-> occ, hasLMI |-> TRUE,
                              medianSalary |-> Get(lmd, "medianAnnualSalary"),
                              totalEmployment |-> Get(lmd, "totalEmployment"),
                              growthRate |-> Get(lmd, "forecastedEmploymentGrowth"),
                              demandScore |-> Get(demand, "score"),
                              demandFactors |-> Get(demand, "factors"),
                              degreeLevel |-> Get(lmd, "typicalDegreeLevel")])

\* res.json({ program, matches, lmiRaw, warnings, aiAvailable }) of
\* match-and-fetch, or its catch block when lmiData is null
MafRes(body, matches, lmiData) ==
    IF IsNull(lmiData) THEN ErrorRes(500)
    ELSE [status |-> 200,
          program |-> [name |-> Or(Get(body.program, "longName"), Get(body.program, "name")),
                       code |-> Get(body.program, "code"),
                       cipCode |-> Get(body.program, "cipCode")],
          matches |-> [i \in 1..Len(matches) |->
                         EnrichWithLmi(matches[i], OccupationsOf(lmiData))],
          lmiRaw |-> lmiData,
          warnings |-> WarningsOf(lmiData),
          aiAvailable |-> OPENAI_API_KEY]

\* MatchesAfterRanker with the ranker's list used only when it is nonempty:
\* if (ai && ai.length) matches = ai
MatchesAfterRankerNonempty(localMatches, ai) ==
    IF IsNull(ai.value) \/ ai.value.items = <<>> THEN localMatches ELSE ai.value.items

\* if (ai) matches = ai: an array, empty or not, takes the place of the
\* local matches
MatchesAfterRanker(localMatches, ai) ==
    IF IsNull(ai.value) THEN localMatches ELSE ai.value.items

\* the request with `matches` settled, its body sent to the labor-market API:
\* socCodeList = matches.map(m => m.code), and fetch awaited
SendToLmi(q, matches) ==
    [q EXCEPT !.pc = "lmiFetch", !.matches = matches,
              !.sent = [socCodes |-> [i \in 1..Len(matches) |-> Get(matches[i], "code")],
                        regionType |-> "national", includeSkills |-> TRUE]]

\* The handler of POST /api/soc/match-and-fetch up to its first await
MafStart(r, body) ==
    /\ pc = "serving"
    /\ reqs[r].pc = "idle"
    /\ IF "program" \notin DOMAIN body
       THEN reqs' = [reqs EXCEPT ![r] =
                [IdleReq EXCEPT !.pc = "done", !.body = body, !.res = ErrorRes(400)]]
       ELSE LET m == matchSocCodes(body.program, MafTopN(body)) IN
            IF m.threw
            THEN reqs' = [reqs EXCEPT ![r] =
                     [IdleReq EXCEPT !.pc = "done", !.body = body, !.res = ErrorRes(500)]]
            ELSE IF body.useAI /\ OPENAI_API_KEY
                 THEN reqs' = [reqs EXCEPT ![r] =
                          [IdleReq EXCEPT !.pc = "mafFetch", !.body = body,
                                          !.local = m.value, !.ranker = "pending"]]
                 ELSE reqs' = [reqs EXCEPT ![r] =
                          SendToLmi([IdleReq EXCEPT !.body = body, !.local = m.value],
                                    m.value)]
    /\ socByCode' = IF "program" \in DOMAIN body
                    THEN StoredAfterMatch(socByCode,
                                          matchSocCodes(body.program, MafTopN(body)).ranked)
                    ELSE socByCode
    /\ UNCHANGED <<pc, source, socCodes, socIndex, buildPos, OPENAI_API_KEY,
                   lastCall, keptCall>>
    /\ UNCHANGED authVars

\* the ranker's `await fetch(...)` settles in match-and-fetch: it resolves,
\* or it rejects, null is returned and the local matches go to the API
MafFetchSettles(r, resolves) ==
    /\ reqs[r].pc = "mafFetch"
    /\ IF resolves
       THEN reqs' = [reqs EXCEPT ![r].pc = "mafJson", ![r].ranker = "fetched"]
       ELSE reqs' = [reqs EXCEPT ![r] =
                SendToLmi([reqs[r] EXCEPT !.ranker = "fetchRejected"],
                          MatchesAfterRanker(reqs[r].local, WithAIFetchRejected))]
    /\ UNCHANGED <<pc, source, socCodes, socIndex, socByCode, buildPos, OPENAI_API_KEY,
                   lastCall, keptCall>>
    /\ UNCHANGED authVars

\* the ranker's `await response.json()` settles in match-and-fetch
MafBodySettles(r, payload) ==
    /\ reqs[r].pc = "mafJson"
    /\ reqs' = [reqs EXCEPT ![r] =
           SendToLmi([reqs[r] EXCEPT !.ranker = "answered", !.payload = payload],
                     MatchesAfterRanker(reqs[r].local, WithAIBody(payload)))]
    /\ UNCHANGED <<pc, source, socCodes, socIndex, socByCode, buildPos, OPENAI_API_KEY,
                   lastCall, keptCall>>
    /\ UNCHANGED authVars

\* `await fetch(...)` of the labor-market API settles: it resolves, or it
\* rejects and the catch block answers 500
LmiFetchSettles(r, resolves) ==
    /\ reqs[r].pc = "lmiFetch"
    /\ IF resolves
       THEN reqs' = [reqs EXCEPT ![r].pc = "lmiJson"]
       ELSE reqs' = [reqs EXCEPT ![r].pc = "done", ![r].lmi = [rejected |-> TRUE],
                                 ![r].res = ErrorRes(500)]
    /\ UNCHANGED <<pc, source, socCodes, socIndex, socByCode, buildPos, OPENAI_API_KEY,
                   lastCall, keptCall>>
    /\ UNCHANGED authVars

\* `await lmiResponse.json()` settles and the handler responds
LmiBodySettles(r, lmi) ==
    /\ reqs[r].pc = "lmiJson"
    /\ reqs' = [reqs EXCEPT ![r].pc = "done", ![r].lmi = lmi,
                            ![r].res = IF ~lmi.parses THEN ErrorRes(500)
                                       ELSE MafRes(reqs[r].body, reqs[r].matches, lmi.body)]
    /\ UNCHANGED <<pc, source, socCodes, socIndex, socByCode, buildPos, OPENAI_API_KEY,
                   lastCall, keptCall>>
    /\ UNCHANGED authVars

\* one client's match-and-fetch requests
MafReqs == {"r1"}

NextFetch ==
    \/ LoadSocCodes
    \/ BuildStep
    \/ Listen
    \/ \E r \in MafReqs, body \in MafBodies : MafStart(r, body)
    \/ \E r \in MafReqs, resolves \in BOOLEAN : MafFetchSettles(r, resolves)
    \/ \E r \in MafReqs, payload \in Payloads : MafBodySettles(r, payload)
    \/ \E r \in MafReqs, resolves \in BOOLEAN : LmiFetchSettles(r, resolves)
    \/ \E r \in MafReqs, lmi \in LmiPayloads : LmiBodySettles(r, lmi)

SpecFetch == Init /\ [][NextFetch]_vars

-----------------------------------------------------------------------------
(* GET /api/soc/search, and the three handlers together *)

\* .slice(0, 50)
SearchLimit == 50

\* String.prototype.trim
RECURSIVE TrimLeft(_)
TrimLeft(t) == IF t # "" /\ IsSpace(CharAt(t, 1)) THEN TrimLeft(SubSeq(t, 2, Len(t))) ELSE t

RECURSIVE TrimRight(_)
TrimRight(t) ==
    IF t # "" /\ IsSpace(CharAt(t, Len(t))) THEN TrimRight(SubSeq(t, 1, Len(t) - 1)) ELSE t

Trim(t) == TrimRight(TrimLeft(t))

\* `${s.code} ${s.title} ${s.majorGroup} ${s.minorGroup} ${s.broadGroup}`.toLowerCase()
Haystack(soc) ==
    toLowerCase(Str(Get(soc, "code")) \o " " \o Str(Get(soc, "title")) \o " "
                \o Str(Get(soc, "majorGroup")) \o " " \o Str(Get(soc, "minorGroup"))
                \o " " \o Str(Get(soc, "broadGroup")))

\* socCodes.filter(s => words.every(word => haystack.includes(word)))
RECURSIVE FilterByWords(_, _)
FilterByWords(entries, words) ==
    IF entries = <<>> THEN <<>>
    ELSE (IF \A i \in 1..Len(words) : Includes(Haystack(Head(entries)), words[i])
          THEN <<Head(entries)>> ELSE <<>>)
         \o FilterByWords(Tail(entries), words)

\* the response of GET /api/soc/search?q=...
SearchRes(query) ==
    LET q == Trim(toLowerCase(OrEmpty(query))) IN
    IF q = ""
    THEN [status |-> 200, results |-> <<>>, total |-> Len(socCodes)]
    ELSE LET results == Slice(FilterByWords(socCodes, SplitWhitespace(q)), SearchLimit) IN
         [status |-> 200, results |-> results, total |-> Len(results), query |-> q]

\* The q of a search: absent, two words in mixed case among spaces, the word
\* a missing field reads as, a word no entry has
Queries == {undefined, "  JOBS  Web ", "undefined", "plumber"}

\* The handler of GET /api/soc/search
SocSearch(r, query) ==
    /\ pc = "serving"
    /\ reqs[r].pc = "idle"
    /\ reqs' = [reqs EXCEPT ![r] =
           [IdleReq EXCEPT !.pc = "done", !.body = [q |-> query], !.res = SearchRes(query)]]
    /\ UNCHANGED <<pc, source, socCodes, socIndex, socByCode, buildPos, OPENAI_API_KEY,
                   lastCall, keptCall>>
    /\ UNCHANGED authVars

\* The bodies and answers of the runs in which the three handlers interleave
ServeBodies == {[program |-> p, topN |-> 1, useAI |-> u] : p \in ServerPrograms, u \in BOOLEAN}

ServeMafBodies == {[program |-> p, useAI |-> u] : p \in ServerPrograms, u \in BOOLEAN}

ServePayloads ==
    { [ok |-> FALSE, data |-> NoData],
      [ok |-> TRUE, data |-> [content |-> [array |-> "valid",
                                           items |-> <<[code |-> "15-1", title |-> "AI Web",
                                                        reason |-> "web"]>>]]] }

ServeLmiPayloads ==
    { [parses |-> TRUE, httpOk |-> TRUE, body |-> null],
      [parses |-> TRUE, httpOk |-> TRUE, body |-> [data |-> [matchedOccupations |-> Occupations]]] }

NextServe ==
    \/ LoadSocCodes
    \/ BuildStep
    \/ Listen
    \/ \E r \in Reqs, body \in ServeBodies : SocMatchStart(r, body)
    \/ \E r \in Reqs, resolves \in BOOLEAN : FetchSettles(r, resolves)
    \/ \E r \in Reqs, payload \in ServePayloads : BodySettles(r, payload)
    \/ \E r \in Reqs, body \in ServeMafBodies : MafStart(r, body)
    \/ \E r \in Reqs, resolves \in BOOLEAN : MafFetchSettles(r, resolves)
    \/ \E r \in Reqs, payload \in ServePayloads : MafBodySettles(r, payload)
    \/ \E r \in Reqs, resolves \in BOOLEAN : LmiFetchSettles(r, resolves)
    \/ \E r \in Reqs, lmi \in ServeLmiPayloads : LmiBodySettles(r, lmi)
    \/ \E r \in Reqs, query \in Queries : SocSearch(r, query)

SpecServe == Init /\ [][NextServe]_vars

-----------------------------------------------------------------------------
(* Startup alone, on every taxonomy *)

InitBuild ==
    /\ pc = "load"
    /\ source \in Sources \cup {[exists |-> TRUE, parses |-> TRUE, entries |-> t] :
                                  t \in Taxonomies}
    /\ socCodes = <<>>
    /\ socIndex = EmptyMap
    /\ socByCode = EmptyMap
    /\ buildPos = 0
    /\ OPENAI_API_KEY = FALSE
    /\ reqs = [r \in Reqs |-> IdleReq]
    /\ lastCall = NoCall
    /\ keptCall = NoCall
    /\ sessions = EmptyMap
    /\ now = 0
    /\ issued = EmptyMap
    /\ lastAuth = NoAuth

NextBuild ==
    \/ LoadSocCodes
    \/ BuildStep
    \/ Listen

SpecBuild == InitBuild /\ [][NextBuild]_vars

-----------------------------------------------------------------------------
(* Calls of matchSocCodes on a built index *)

\* one call of matchSocCodes and its outcome
CallOf(programData, topN) ==
    LET r == matchSocCodes(programData, topN) IN
    [called |-> TRUE, programData |-> programData, topN |-> topN,
     threw |-> r.threw, value |-> r.value, scores |-> r.scores, ranked |-> r.ranked]

InitMatch ==
    /\ pc = "serving"
    /\ \E t \in Taxonomies :
         /\ source = [exists |-> TRUE, parses |-> TRUE, entries |-> t]
         /\ socCodes = t
         /\ socIndex = BuildUpTo(t, Len(t)).index
         /\ socByCode = BuildUpTo(t, Len(t)).byCode
         /\ buildPos = Len(t)
    /\ OPENAI_API_KEY = FALSE
    /\ reqs = [r \in Reqs |-> IdleReq]
    /\ lastCall = NoCall
    /\ keptCall = NoCall
    /\ sessions = EmptyMap
    /\ now = 0
    /\ issued = EmptyMap
    /\ lastAuth = NoAuth

\* matchSocCodes(programData, topN) is called
CallMatch(programData, topN) ==
    /\ pc = "serving"
    /\ lastCall' = CallOf(programData, topN)
    /\ UNCHANGED <<pc, source, socCodes, socIndex, socByCode, buildPos,
                   OPENAI_API_KEY, reqs, keptCall>>
    /\ UNCHANGED authVars

NextMatch ==
    \E programData \in Programs, topN \in TopNs : CallMatch(programData, topN)

\* the caller keeps what the last call returned
KeepCall ==
    /\ lastCall.called
    /\ keptCall' = lastCall
    /\ UNCHANGED <<pc, source, socCodes, socIndex, socByCode, buildPos,
                   OPENAI_API_KEY, reqs, lastCall>>
    /\ UNCHANGED authVars

NextIdem ==
    \/ \E programData \in Programs, topN \in 0..MaxTopN : CallMatch(programData, topN)
    \/ KeepCall

SpecMatch == InitMatch /\ [][NextMatch]_vars

SpecIdem == InitMatch /\ [][NextIdem]_vars

-----------------------------------------------------------------------------
(* Calls of matchSocCodes with its locals recorded *)

\* topN = 10, the default of the parameter
DefaultTopN == 10

\* queryTokens, queryBigrams and the accumulator after the unigram loop and
\* after the bigram loop (after the title loop it is `scores` of the call)
Stages(programData) ==
    LET queryTokens == tokenize(QueryText(programData))
        afterTokens == TokenHits(NewScores, queryTokens, 1)
    IN [queryTokens |-> queryTokens,
        queryBigrams |-> Bigrams(queryTokens),
        afterTokens |-> afterTokens,
        afterBigrams |-> TokenHits(afterTokens, Bigrams(queryTokens), 2)]

\* Entries with a title: two entries sharing a code and a group label, two
\* entries with the same text of which one has no code, and an entry whose
\* title has no token.
ScorePool ==
    { [code |-> "15-1", title |-> "The Web-Developers", majorGroup |-> "Computer Jobs"],
      [code |-> "15-1", title |-> "Data Analysts", majorGroup |-> "Computer Jobs",
       minorGroup |-> "Data"],
      [code |-> "29-1", title |-> "Nurses", majorGroup |-> "Health Jobs"],
      [title |-> "Nurses", majorGroup |-> "Health Jobs", broadGroup |-> ""],
      [code |-> "11-3", title |-> "IT", majorGroup |-> "Computer Jobs"] }

ScoreTaxonomies == SeqsUpTo(ScorePool, MaxEntries)

\* Query records: the ones of Programs, records whose text is exactly a
\* title, a record hitting a part of a title, and records with no text.
ScorePrograms ==
    Programs
    \cup { [longName |-> "The Web-Developers"], [name |-> "Data Analysts"],
           [longName |-> "IT"], [name |-> "Computer Jobs Jobs"],
           [longName |-> "", name |-> "", type |-> "", degreeDesignation |-> "",
            college |-> "", level |-> ""] }

InitScore ==
    /\ pc = "serving"
    /\ \E t \in ScoreTaxonomies :
         /\ source = [exists |-> TRUE, parses |-> TRUE, entries |-> t]
         /\ socCodes = t
         /\ socIndex = BuildUpTo(t, Len(t)).index
         /\ socByCode = BuildUpTo(t, Len(t)).byCode
         /\ buildPos = Len(t)
    /\ OPENAI_API_KEY = FALSE
    /\ reqs = [r \in Reqs |-> IdleReq]
    /\ lastCall = NoCall
    /\ keptCall = NoCall
    /\ sessions = EmptyMap
    /\ now = 0
    /\ issued = EmptyMap
    /\ lastAuth = NoAuth

\* matchSocCodes(programData) is called
CallScore(programData) ==
    /\ pc = "serving"
    /\ LET call == CallOf(programData, DefaultTopN)
           stages == Stages(programData)
       IN lastCall' = [f \in (DOMAIN call) \cup (DOMAIN stages) |->
                         IF f \in DOMAIN call THEN call[f] ELSE stages[f]]
    /\ UNCHANGED <<pc, source, socCodes, socIndex, socByCode, buildPos,
                   OPENAI_API_KEY, reqs, keptCall>>
    /\ UNCHANGED authVars

NextScore == \E programData \in ScorePrograms : CallScore(programData)

SpecScore == InitScore /\ [][NextScore]_vars

-----------------------------------------------------------------------------
(* Sessions: login, verify and the requireAuth middleware *)

MaxLogins == 2

MaxTicks == 4

\* const SESSION_TTL_MS = 24 * 60 * 60 * 1000
SESSION_TTL_MS == 24 * 60 * 60 * 1000

\* the clock is read at steps of twelve hours
ClockStep == SESSION_TTL_MS \div 2

\* crypto.createHash('sha256').update(str).digest('hex'): a stand-in that,
\* like the hash, gives different texts different values
sha256(str) == "sha256:" \o str

\* Default access code: "coursedog-lmi-2026"
ACCESS_CODE_HASH == sha256("coursedog-lmi-2026")

\* generateToken(): 32 random bytes in hex; the n-th call returns a token no
\* earlier call returned
generateToken(n) == "token" \o ToString(n)

\* The values of req.body.code: absent; an empty string; the access code, bare
\* and among white space; a wrong code; a JSON number
LoginCodes ==
    { [type |-> "undefined"],
      [type |-> "string", value |-> ""],
      [type |-> "string", value |-> "coursedog-lmi-2026"],
      [type |-> "string", value |-> " coursedog-lmi-2026\n"],
      [type |-> "string", value |-> "letmein"],
      [type |-> "number", number |-> 12345] }

\* !code
CodeFalsy(code) ==
    \/ code.type = "undefined"
    \/ code.type = "string" /\ code.value = ""
    \/ code.type = "number" /\ code.number = 0

\* The values of the x-access-token header and of req.body.token: absent,
\* empty, a token no login returned, and the tokens logins return
TokenInputs ==
    {undefined, "", "forged"} \cup {generateToken(n) : n \in 1..MaxLogins}

\* isValidSession with the comparison off by one: if (Date.now() >= expiry)
isValidSessionFromExpiry(store, token, time) ==
    IF ~Truthy(token) THEN [valid |-> FALSE, sessions |-> store]
    ELSE IF token \notin DOMAIN store THEN [valid |-> FALSE, sessions |-> store]
    ELSE IF time >= store[token]
         THEN [valid |-> FALSE,
               sessions |-> [t \in (DOMAIN store) \ {token} |-> store[t]]]
         ELSE [valid |-> TRUE, sessions |-> store]

\* isValidSession(token) at Date.now() = time: what it returns and the
\* session store it leaves
isValidSession(store, token, time) ==
    IF ~Truthy(token) THEN [valid |-> FALSE, sessions |-> store]
    ELSE IF token \notin DOMAIN store THEN [valid |-> FALSE, sessions |-> store]
    ELSE IF time > store[token]
         THEN [valid |-> FALSE,
               sessions |-> [t \in (DOMAIN store) \ {token} |-> store[t]]]
         ELSE [valid |-> TRUE, sessions |-> store]

\* The handler of POST /api/auth/login.  A code that is neither falsy nor a
\* string has no trim method: the handler throws and Express answers 500.
Login(code) ==
    /\ pc = "serving"
    /\ IF CodeFalsy(code)
       THEN /\ lastAuth' = [op |-> "login", code |-> code, status |-> 400,
                            before |-> sessions]
            /\ UNCHANGED <<sessions, issued>>
       ELSE IF code.type # "string"
       THEN /\ lastAuth' = [op |-> "login", code |-> code, status |-> 500,
                            before |-> sessions]
            /\ UNCHANGED <<sessions, issued>>
       ELSE IF sha256(Trim(code.value)) # ACCESS_CODE_HASH
       THEN /\ lastAuth' = [op |-> "login", code |-> code, status |-> 401,
                            before |-> sessions]
            /\ UNCHANGED <<sessions, issued>>
       ELSE LET token == generateToken(Cardinality(DOMAIN issued) + 1) IN
            /\ Cardinality(DOMAIN issued) < MaxLogins
            /\ sessions' = MapSet(sessions, token, now + SESSION_TTL_MS)
            /\ issued' = MapSet(issued, token, now)
            /\ lastAuth' = [op |-> "login", code |-> code, status |-> 200,
                            before |-> sessions, token |-> token]
    /\ UNCHANGED <<pc, source, socCodes, socIndex, socByCode, buildPos,
                   OPENAI_API_KEY, reqs, lastCall, keptCall, now>>

\* The handler of POST /api/auth/verify:
\* token = req.headers['x-access-token'] || req.body.token
Verify(header, bodyToken) ==
    /\ pc = "serving"
    /\ LET token == Or(header, bodyToken)
           check == isValidSession(sessions, token, now)
       IN /\ sessions' = check.sessions
          /\ lastAuth' = [op |-> "verify", token |-> token, at |-> now,
                          valid |-> check.valid, status |-> 200]
    /\ UNCHANGED <<pc, source, socCodes, socIndex, socByCode, buildPos,
                   OPENAI_API_KEY, reqs, lastCall, keptCall, now, issued>>

\* app.use and the routes in the order of their registration: "auth" is
\* app.use(prefix, requireAuth), "route" a handler
Stack ==
    << [kind |-> "auth", path |-> "/api/schools"],
       [kind |-> "auth", path |-> "/api/lmi"],
       [kind |-> "auth", path |-> "/api/skills-library"],
       [kind |-> "route", path |-> "/api/schools"],
       [kind |-> "route", path |-> "/api/lmi/regions"],
       [kind |-> "route", path |-> "/api/skills-library/tree"],
       [kind |-> "auth", path |-> "/api/soc"],
       [kind |-> "route", path |-> "/api/soc/match"],
       [kind |-> "route", path |-> "/api/soc/search"],
       [kind |-> "route", path |-> "/api/soc/all"],
       [kind |-> "route", path |-> "/api/soc/match-and-fetch"] >>

\* the paths requested: the routes, and a path no layer handles
Paths == {Stack[i].path : i \in {j \in 1..Len(Stack) : Stack[j].kind = "route"}}
         \cup {"/api/health"}

\* app.use(prefix, ...) matches the prefix itself and what follows it after
\* a slash
UnderPrefix(path, prefix) ==
    \/ path = prefix
    \/ /\ Len(path) > Len(prefix)
       /\ SubSeq(path, 1, Len(prefix) + 1) = prefix \o "/"

\* Express runs the layers from i on for a request of path with the header
\* token: requireAuth answers 401 or calls next(), a route of that path runs
\* its handler, and a request no layer answers gets 404
RECURSIVE RunStack(_, _, _, _)
RunStack(i, path, token, store) ==
    IF i > Len(Stack) THEN [status |-> 404, ran |-> FALSE, sessions |-> store,
                            checked |-> FALSE, valid |-> FALSE]
    ELSE LET layer == Stack[i] IN
         IF layer.kind = "auth" /\ UnderPrefix(path, layer.path)
         THEN LET check == isValidSession(store, token, now) IN
              IF ~check.valid
              THEN [status |-> 401, ran |-> FALSE, sessions |-> check.sessions,
                    checked |-> TRUE, valid |-> FALSE]
              ELSE LET rest == RunStack(i + 1, path, token, check.sessions) IN
                   [rest EXCEPT !.checked = TRUE, !.valid = TRUE]
         ELSE IF layer.kind = "route" /\ layer.path = path
         THEN [status |-> 200, ran |-> TRUE, sessions |-> store,
               checked |-> FALSE, valid |-> FALSE]
         ELSE RunStack(i + 1, path, token, store)

\* a request of path with the x-access-token header reaches the server
Request(path, header) ==
    /\ pc = "serving"
    /\ LET out == RunStack(1, path, header, sessions) IN
       /\ sessions' = out.sessions
       /\ lastAuth' = [op |-> "request", path |-> path, token |-> header,
                       at |-> now, checked |-> out.checked, valid |-> out.valid,
                       ran |-> out.ran, status |-> out.status]
    /\ UNCHANGED <<pc, source, socCodes, socIndex, socByCode, buildPos,
                   OPENAI_API_KEY, reqs, lastCall, keptCall, now, issued>>

\* time passes
Tick ==
    /\ now < MaxTicks * ClockStep
    /\ now' = now + ClockStep
    /\ UNCHANGED <<pc, source, socCodes, socIndex, socByCode, buildPos,
                   OPENAI_API_KEY, reqs, lastCall, keptCall, sessions, issued, lastAuth>>

NextAuth ==
    \/ \E code \in LoginCodes : Login(code)
    \/ \E header, bodyToken \in TokenInputs : Verify(header, bodyToken)
    \/ \E path \in Paths, header \in TokenInputs : Request(path, header)
    \/ Tick

\* the server listens with no session yet (and here with no soc_codes.json)
InitAuth ==
    /\ pc = "serving"
    /\ source = MissingSource
    /\ socCodes = <<>>
    /\ socIndex = EmptyMap
    /\ socByCode = EmptyMap
    /\ buildPos = 0
    /\ OPENAI_API_KEY = FALSE
    /\ reqs = [r \in Reqs |-> IdleReq]
    /\ lastCall = NoCall
    /\ keptCall = NoCall
    /\ sessions = EmptyMap
    /\ now = 0
    /\ issued = EmptyMap
    /\ lastAuth = NoAuth

SpecAuth == InitAuth /\ [][NextAuth]_vars

-----------------------------------------------------------------------------
(* Claims about matchSocCodes (SpecMatch, SpecIdem) *)

Returned == lastCall.called /\ ~lastCall.threw

\* C1: for every taxonomy, query record and integer topN, a call that returns
\* returns at most topN results when topN >= 0 and an empty sequence when
\* topN <= 0, negative topN included.
C1_LengthAtMostTopN ==
    Returned =>
        /\ lastCall.topN >= 0 => Len(lastCall.value) <= lastCall.topN
        /\ lastCall.topN <= 0 => lastCall.value = <<>>

\* C2: matchSocCodes never returns an entry whose accumulated score is zero.
C2_NoZeroScoreEntry ==
    Returned => \A i \in 1..Len(lastCall.ranked) : lastCall.ranked[i][2] # 0

\* the position at which a code was first inserted into the accumulator
InsertionPos(scores, code) == CHOOSE i \in 1..Len(scores) : scores[i][1] = code

RECURSIVE Flatten(_)
Flatten(seqs) == IF seqs = <<>> THEN <<>> ELSE Head(seqs) \o Flatten(Tail(seqs))

RECURSIVE FirstOccurrences(_)
FirstOccurrences(seq) ==
    IF seq = <<>> THEN <<>>
    ELSE LET rest == FirstOccurrences(SubSeq(seq, 1, Len(seq) - 1)) IN
         IF InSeq(rest, seq[Len(seq)]) THEN rest ELSE Append(rest, seq[Len(seq)])

\* the codes hit by a query, hit by hit: unigram hits in query-token order,
\* then bigram hits, then title-bonus hits in taxonomy order
HitCodes(programData) ==
    LET queryText == QueryText(programData)
        tokens == tokenize(queryText)
        bigrams == Bigrams(tokens)
        hit(keys) == Flatten([i \in 1..Len(keys) |->
                        IF keys[i] \in DOMAIN socIndex THEN socIndex[keys[i]] ELSE <<>>])
        titleHit(soc) == \E j \in 1..Len(tokenize(soc.title)) :
                            Includes(toLowerCase(queryText), tokenize(soc.title)[j])
    IN hit(tokens) \o hit(bigrams)
       \o Flatten([i \in 1..Len(socCodes) |->
                     IF titleHit(socCodes[i]) THEN <<Get(socCodes[i], "code")>> ELSE <<>>])

\* C3: the returned sequence is ordered by non-increasing relevanceScore, two
\* results with equal accumulated score appear in the order in which their
\* codes were first inserted into the accumulator, and that insertion order
\* is: unigram hits in query-token order, then bigram hits, then title-bonus
\* hits in taxonomy order.
C3_SortedStableByInsertion ==
    Returned =>
        LET value == lastCall.value
            ranked == lastCall.ranked
            scores == lastCall.scores
        IN /\ Len(value) = Len(ranked)
           /\ \A i \in 1..Len(value) : value[i].relevanceScore = Round2(ranked[i][2])
           /\ \A i, j \in 1..Len(value) :
                i < j => value[i].relevanceScore >= value[j].relevanceScore
           /\ \A i, j \in 1..Len(ranked) :
                (i < j /\ ranked[i][2] = ranked[j][2]) =>
                    /\ InSeq(scores, ranked[i]) /\ InSeq(scores, ranked[j])
                    /\ InsertionPos(scores, ranked[i][1]) < InsertionPos(scores, ranked[j][1])
           /\ [i \in 1..Len(scores) |-> scores[i][1]]
                = FirstOccurrences(HitCodes(lastCall.programData))

\* C3 witness: a call returned two results with equal nonzero accumulated
\* score.
C3_Witness ==
    /\ Returned
    /\ Len(lastCall.ranked) >= 2
    /\ lastCall.ranked[1][2] = lastCall.ranked[2][2]
    /\ lastCall.ranked[2][2] > 0

\* C4: every result carries a code that is the code of some entry of the
\* loaded taxonomy, that code is a key of the code-to-entry map, and the
\* result's fields are those of the entry stored under it, duplicate codes
\* in the taxonomy included.
C4_ResultsAreStoredEntries ==
    Returned =>
        \A i \in 1..Len(lastCall.value) :
            LET item == lastCall.value[i]
                code == Get(item, "code")
            IN /\ \E k \in 1..Len(socCodes) : Get(socCodes[k], "code") = code
               /\ lastCall.ranked[i][1] = code
               /\ code \in DOMAIN socByCode
               /\ DOMAIN item = (DOMAIN socByCode[code]) \cup {"relevanceScore"}
               /\ \A f \in DOMAIN socByCode[code] : item[f] = socByCode[code][f]

\* C4 witness: a taxonomy with two entries of one code, and a call that
\* returned a result for that code.
C4_Witness ==
    /\ Returned
    /\ \E j, k \in 1..Len(socCodes) :
         /\ j < k
         /\ Get(socCodes[j], "code") = Get(socCodes[k], "code")
         /\ \E i \in 1..Len(lastCall.value) :
              Get(lastCall.value[i], "code") = Get(socCodes[j], "code")

\* C10: two calls of matchSocCodes with the same query record and topN on
\* one built index return the same outcome, whatever calls happened between.
C10_Idempotent ==
    (keptCall.called /\ lastCall.called
     /\ keptCall.programData = lastCall.programData /\ keptCall.topN = lastCall.topN)
    => (keptCall.threw = lastCall.threw /\ keptCall.value = lastCall.value)

\* C10 witness: a call was kept, and the last call repeats it with a
\* nonempty result.
C10_Witness ==
    /\ keptCall.called /\ lastCall.called
    /\ keptCall.programData = lastCall.programData /\ keptCall.topN = lastCall.topN
    /\ lastCall.value # <<>>

-----------------------------------------------------------------------------
(* Claims about the built index (SpecBuild, SpecMatch) *)

\* the unigrams and the underscore-joined bigrams of adjacent tokens of the
\* text of an entry: title, majorGroup, minorGroup and broadGroup joined by
\* spaces (a group that is absent or empty adds nothing; a title that is
\* absent reads "undefined" in the template literal)
KeysOfEntry(soc) ==
    LET tokens == tokenize(Str(Get(soc, "title")) \o " " \o OrEmpty(Get(soc, "majorGroup"))
                           \o " " \o OrEmpty(Get(soc, "minorGroup"))
                           \o " " \o OrEmpty(Get(soc, "broadGroup")))
    IN {tokens[i] : i \in 1..Len(tokens)}
       \cup {tokens[i] \o "_" \o tokens[i + 1] : i \in 1..(Len(tokens) - 1)}

\* C14: after build, a key k maps to a set containing code c if and only if k
\* is a unigram or an adjacent-token bigram of the tokenized text of some
\* entry with code c; the sets hold no code twice, and every code of an
\* index set is a key of the code-to-entry map.
C14_IndexInvariant ==
    pc = "serving" =>
        LET keys == [i \in 1..Len(socCodes) |-> KeysOfEntry(socCodes[i])] IN
        /\ \A k \in DOMAIN socIndex :
             /\ socIndex[k] # <<>>
             /\ \A i, j \in 1..Len(socIndex[k]) : i # j => socIndex[k][i] # socIndex[k][j]
             /\ \A j \in 1..Len(socIndex[k]) :
                  /\ \E i \in 1..Len(socCodes) :
                       /\ Get(socCodes[i], "code") = socIndex[k][j]
                       /\ k \in keys[i]
                  /\ socIndex[k][j] \in DOMAIN socByCode
        /\ \A i \in 1..Len(socCodes) :
             \A k \in keys[i] :
                /\ k \in DOMAIN socIndex
                /\ InSeq(socIndex[k], Get(socCodes[i], "code"))

\* C14 witness: two entries with different codes share the token "jobs", and
\* the bigram "computer_jobs" is a key.
C14_Witness ==
    /\ pc = "serving"
    /\ "jobs" \in DOMAIN socIndex /\ Len(socIndex["jobs"]) = 2
    /\ "computer_jobs" \in DOMAIN socIndex

\* the last entry of the taxonomy with the given code
LastWithCode(code) ==
    socCodes[CHOOSE k \in 1..Len(socCodes) :
                /\ Get(socCodes[k], "code") = code
                /\ \A j \in (k + 1)..Len(socCodes) : Get(socCodes[j], "code") # code]

\* C15: if the taxonomy holds two entries with the same code, the
\* code-to-entry map holds the later one, and every match result for that
\* code shows the later entry's title and group labels.
C15_LastWriteWins ==
    pc = "serving" =>
        /\ \A i \in 1..Len(socCodes) :
             LET code == Get(socCodes[i], "code") IN
             /\ code \in DOMAIN socByCode
             /\ socByCode[code] = LastWithCode(code)
        /\ (lastCall.called /\ "value" \in DOMAIN lastCall /\ ~lastCall.threw) =>
             \A i \in 1..Len(lastCall.value) :
                LET item == lastCall.value[i]
                    later == LastWithCode(lastCall.ranked[i][1])
                IN /\ DOMAIN item = (DOMAIN later) \cup {"relevanceScore"}
                   /\ \A f \in DOMAIN later : item[f] = later[f]

\* C15 witness: two entries share code 15-1; the query hits tokens of the
\* earlier one only, and the result shows the title of the later one.
C15_Witness ==
    /\ Returned
    /\ Len(socCodes) = 2
    /\ Get(socCodes[1], "title") = "The Web-Developers"
    /\ Get(socCodes[2], "title") = "Data Analysts"
    /\ lastCall.programData = [longName |-> "Web Design", name |-> "nurses", type |-> "BS"]
    /\ Len(lastCall.value) = 1
    /\ lastCall.value[1].code = "15-1"
    /\ lastCall.value[1].title = "Data Analysts"

-----------------------------------------------------------------------------
(* Claims about the scores (SpecScore) *)

\* a call of matchSocCodes whose locals are recorded returned
Scored == lastCall.called /\ "afterTokens" \in DOMAIN lastCall /\ ~lastCall.threw

\* the score of a code in an accumulator, 0 when it has none
ScoreOf(scores, code) ==
    IF \E i \in 1..Len(scores) : scores[i][1] = code
    THEN scores[CHOOSE i \in 1..Len(scores) : scores[i][1] = code][2]
    ELSE 0

RECURSIVE SumSeq(_)
SumSeq(nums) == IF nums = <<>> THEN 0 ELSE Head(nums) + SumSeq(Tail(nums))

\* the codes of the taxonomy, undefined for an entry without one
CodesOfTaxonomy == {Get(socCodes[i], "code") : i \in 1..Len(socCodes)}

\* the number of entries whose text has the unigram or bigram k
EntriesWith(k) == Cardinality({i \in 1..Len(socCodes) : k \in KeysOfEntry(socCodes[i])})

\* the weight the claim gives an index hit of key k
ClaimedWeight(k) ==
    IF EntriesWith(k) = Len(socCodes) THEN 0
    ELSE IF EntriesWith(k) = 1 THEN Log(Len(socCodes), 1)
    ELSE Log(Len(socCodes), Len(socIndex[k]))

\* the sum, over the keys of a query that are in the index with the code in
\* their set, of weight(key)
HitSum(keys, code, weight(_)) ==
    SumSeq([j \in 1..Len(keys) |->
              IF keys[j] \in DOMAIN socIndex /\ InSeq(socIndex[keys[j]], code)
              THEN weight(keys[j]) ELSE 0])

\* C16: each query token present in the index with code-set size df adds
\* ln(totalEntryCount / df) to every code of its set; a token whose text
\* occurs in every entry adds 0 and a token occurring in exactly one entry
\* adds ln(totalEntryCount), for every taxonomy, duplicate codes included;
\* a bigram hit adds twice the weight.
C16_UnigramWeighting ==
    Scored =>
        LET byDf(k) == Log(Len(socCodes), Len(socIndex[k])) IN
        \A code \in CodesOfTaxonomy :
            /\ ScoreOf(lastCall.afterTokens, code)
                 = HitSum(lastCall.queryTokens, code, byDf)
            /\ ScoreOf(lastCall.afterTokens, code)
                 = HitSum(lastCall.queryTokens, code, ClaimedWeight)
            /\ ScoreOf(lastCall.afterBigrams, code) - ScoreOf(lastCall.afterTokens, code)
                 = 2 * HitSum(lastCall.queryBigrams, code, byDf)
            /\ ScoreOf(lastCall.afterBigrams, code) - ScoreOf(lastCall.afterTokens, code)
                 = 2 * HitSum(lastCall.queryBigrams, code, ClaimedWeight)

\* the number of title tokens of an entry that occur in the lower-cased
\* query text, and the number of its title tokens
TitleTokenHits(soc, programData) ==
    LET titleTokens == tokenize(soc.title) IN
    Cardinality({j \in 1..Len(titleTokens) :
                    Includes(toLowerCase(QueryText(programData)), titleTokens[j])})

TotalTitleTokens(soc) == Len(tokenize(soc.title))

\* matchRatio * 10 in thousandths when titleTokenHits > 0, else nothing
RatioBonus(soc, programData) ==
    IF TitleTokenHits(soc, programData) > 0
    THEN (TitleTokenHits(soc, programData) * 10000) \div TotalTitleTokens(soc)
    ELSE 0

\* what the title loop added to a code
TitleDelta(code) == ScoreOf(lastCall.scores, code) - ScoreOf(lastCall.afterBigrams, code)

\* the sum of bonus(entry) over the entries with the given code
BonusSum(code, bonus(_)) ==
    SumSeq([i \in 1..Len(socCodes) |->
              IF Get(socCodes[i], "code") = code THEN bonus(socCodes[i]) ELSE 0])

\* C13 as stated: when the query text is exactly an entry's title, that
\* entry's bonus is exactly 10; in general the bonus of an entry is
\* matchRatio * 10 whenever titleTokenHits > 0.
C13_ExactTitleBonusIsTen ==
    Scored =>
        LET claimed(soc) == IF QueryText(lastCall.programData) = soc.title THEN 10000
                            ELSE RatioBonus(soc, lastCall.programData)
        IN \A code \in CodesOfTaxonomy : TitleDelta(code) = BonusSum(code, claimed)

\* C13 as amended: the bonus of an entry is matchRatio * 10 whenever
\* titleTokenHits > 0 and nothing otherwise, and when the query text is
\* exactly the title of an entry whose title has at least one token, that
\* entry's bonus is exactly 10.
C13_TitleBonus ==
    Scored =>
        LET ratio(soc) == RatioBonus(soc, lastCall.programData)
            claimed(soc) == IF /\ QueryText(lastCall.programData) = soc.title
                               /\ TotalTitleTokens(soc) > 0
                            THEN 10000
                            ELSE RatioBonus(soc, lastCall.programData)
        IN \A code \in CodesOfTaxonomy :
              /\ TitleDelta(code) = BonusSum(code, ratio)
              /\ TitleDelta(code) = BonusSum(code, claimed)

\* C13 witness: the query text is the title "The Web-Developers" of the one
\* entry with code 15-1, and the title loop added 10 to that code.
C13_Witness ==
    /\ Scored
    /\ QueryText(lastCall.programData) = "The Web-Developers"
    /\ Len(socCodes) = 2
    /\ socCodes[1].title = "The Web-Developers"
    /\ Get(socCodes[2], "code") # "15-1"
    /\ TitleDelta("15-1") = 10000

\* the query record has no text: every field absent or empty
EmptyQuery(programData) ==
    \A f \in {"longName", "name", "type", "degreeDesignation", "college", "level"} :
        ~Truthy(Get(programData, f))

\* C17 as stated: for an empty query the token and bigram sequences are
\* empty, the unigram and bigram loops add nothing, and there is a taxonomy
\* for which the title step contributes, so that the result is nonempty.
C17_EmptyQueryMayMatch ==
    (Scored /\ EmptyQuery(lastCall.programData)) =>
        /\ lastCall.queryTokens = <<>> /\ lastCall.queryBigrams = <<>>
        /\ lastCall.afterBigrams = <<>>
        /\ \E t \in ScoreTaxonomies : \E i \in 1..Len(t) :
              TitleMatchCount(tokenize(t[i].title), toLowerCase("")) > 0

\* C17 as amended: for an empty query the token and bigram sequences are
\* empty, no step contributes, and matchSocCodes returns the empty sequence
\* for every taxonomy.
C17_EmptyQueryMatchesNothing ==
    (Scored /\ EmptyQuery(lastCall.programData)) =>
        /\ lastCall.queryTokens = <<>> /\ lastCall.queryBigrams = <<>>
        /\ lastCall.afterBigrams = <<>>
        /\ lastCall.scores = <<>>
        /\ lastCall.value = <<>>

\* C17 witness: a query whose fields are all empty strings was matched
\* against a taxonomy of two entries and returned nothing.
C17_Witness ==
    /\ Scored /\ EmptyQuery(lastCall.programData)
    /\ "longName" \in DOMAIN lastCall.programData
    /\ Len(socCodes) = 2
    /\ lastCall.value = <<>>

-----------------------------------------------------------------------------
(* Claims about POST /api/soc/match and startup (Spec, SpecLive) *)

HasProgram(q) == "program" \in DOMAIN q.body

\* the ranker was not called, or its call failed: fetch rejected, the body did
\* not parse, the payload was null or had no choices, the text had no JSON
\* array or an invalid one, or an item of the array was null
RankerFailed(q) ==
    \/ q.ranker \in {"notCalled", "fetchRejected"}
    \/ /\ q.ranker = "answered"
       /\ \/ ~q.payload.ok
          \/ IsNull(q.payload.data)
          \/ "content" \notin DOMAIN q.payload.data
          \/ q.payload.data.content.array \in {"none", "invalid"}
          \/ \E i \in 1..Len(q.payload.data.content.items) :
                IsNull(q.payload.data.content.items[i])

\* C5: in POST /api/soc/match, whenever local matching returned its list and
\* the ranker is disabled, throws, returns a malformed payload, text without
\* a JSON array or invalid JSON, the request completes with status 200, the
\* local match list in localMatches and aiMatches = null.
C5_RankerFailureFallsBack ==
    \A r \in Reqs :
        LET q == reqs[r] IN
        (q.pc = "done" /\ HasProgram(q) /\ ~TitleThrows /\ RankerFailed(q)) =>
            /\ q.res.status = 200
            /\ q.res.localMatches = matchSocCodes(q.body.program, q.body.topN).value
            /\ q.res.aiMatches = null

\* C5 witness: the ranker answered with text whose array is invalid JSON, and
\* the response carries a nonempty local match list.
C5_Witness ==
    \E r \in Reqs :
        LET q == reqs[r] IN
        /\ q.pc = "done" /\ q.ranker = "answered" /\ q.payload.ok
        /\ "content" \in DOMAIN q.payload.data
        /\ q.payload.data.content.array = "invalid"
        /\ q.res.status = 200
        /\ q.res.localMatches # <<>>

\* C6: every POST /api/soc/match request that awaits the ranker eventually
\* receives a response containing localMatches, even if the ranker never
\* responds.
C6_EventuallyResponds ==
    \A r \in Reqs :
        (reqs[r].pc = "fetch") ~> (reqs[r].pc = "done" /\ reqs[r].res.status = 200)

\* C7: for a fixed taxonomy, program and topN, the localMatches returned by
\* POST /api/soc/match are the same whatever useAI is and whatever the ranker
\* returns.
C7_LocalMatchesIndependentOfRanker ==
    \A r1, r2 \in Reqs :
        LET q1 == reqs[r1]
            q2 == reqs[r2]
        IN (/\ q1.pc = "done" /\ q2.pc = "done"
            /\ HasProgram(q1) /\ HasProgram(q2)
            /\ q1.body.program = q2.body.program
            /\ q1.body.topN = q2.body.topN)
           => /\ q1.res.status = q2.res.status
              /\ q1.res.status = 200 => q1.res.localMatches = q2.res.localMatches

\* C7 witness: two answered requests for one program and topN, one without
\* the ranker and one to which the ranker returned a nonempty list.
C7_Witness ==
    \E r1, r2 \in Reqs :
        LET q1 == reqs[r1]
            q2 == reqs[r2]
        IN /\ q1.pc = "done" /\ q2.pc = "done"
           /\ HasProgram(q1) /\ HasProgram(q2)
           /\ q1.body.program = q2.body.program
           /\ q1.body.topN = q2.body.topN
           /\ ~q1.body.useAI /\ q1.res.status = 200 /\ q1.res.localMatches # <<>>
           /\ q2.res.status = 200 /\ ~IsNull(q2.res.aiMatches)
           /\ q2.res.aiMatches.items # <<>>

\* C8: for every triple returned by the ranker: if its code is in the
\* code-to-entry map, the output item has verified = true and the title and
\* group labels of the local entry; if not, it keeps the external title, has
\* empty group labels and verified = false; every item has source = "ai".
C8_EnrichmentUsesLocalEntry ==
    \A r \in Reqs :
        LET q == reqs[r] IN
        (q.pc = "done" /\ q.res.status = 200 /\ ~IsNull(q.res.aiMatches)) =>
            /\ Len(q.res.aiMatches.items) = Len(q.payload.data.content.items)
            /\ \A i \in 1..Len(q.res.aiMatches.items) :
                LET m == q.payload.data.content.items[i]
                    out == q.res.aiMatches.items[i]
                    code == Get(m, "code")
                IN /\ out.source = "ai"
                   /\ out.code = code
                   /\ IF code \in DOMAIN socByCode
                      THEN /\ out.verified
                           /\ out.title = Get(socByCode[code], "title")
                           /\ out.majorGroup = OrEmpty(Get(socByCode[code], "majorGroup"))
                           /\ out.minorGroup = OrEmpty(Get(socByCode[code], "minorGroup"))
                           /\ out.broadGroup = OrEmpty(Get(socByCode[code], "broadGroup"))
                      ELSE /\ ~out.verified
                           /\ out.title = Get(m, "title")
                           /\ out.majorGroup = ""
                           /\ out.minorGroup = ""
                           /\ out.broadGroup = ""

\* the taxonomy source exists, parses, and every entry is an object with a
\* code and a title
SourceValid ==
    /\ source.exists /\ source.parses
    /\ \A i \in 1..Len(source.entries) :
         /\ ~IsNull(source.entries[i])
         /\ "code" \in DOMAIN source.entries[i]
         /\ "title" \in DOMAIN source.entries[i]

\* C9: if the taxonomy source is missing, or an entry is malformed or lacks
\* its code or title, the process fails during the index build: it never
\* serves, and never answers a match request.
C9_BuildErrorsAreFatal ==
    ~SourceValid =>
        /\ pc # "serving"
        /\ \A r \in Reqs : reqs[r].pc = "idle"

-----------------------------------------------------------------------------
(* Calls of tokenize *)

MaxPieces == 3

\* The pieces input texts are made of: words in upper and lower case, a stop
\* word, words of two characters, digits, punctuation and white space.
TextPieces == {"The ", "Web-Dev", "R2", "and", "nurses9", " ", ",", "\tIT"}

RECURSIVE Concat(_)
Concat(parts) == IF parts = <<>> THEN "" ELSE Head(parts) \o Concat(Tail(parts))

Texts == {Concat(parts) : parts \in SeqsUpTo(TextPieces, MaxPieces)}

\* the server answers requests from an empty taxonomy (no soc_codes.json)
InitTok ==
    /\ pc = "serving"
    /\ source = MissingSource
    /\ socCodes = <<>>
    /\ socIndex = EmptyMap
    /\ socByCode = EmptyMap
    /\ buildPos = 0
    /\ OPENAI_API_KEY = FALSE
    /\ reqs = [r \in Reqs |-> IdleReq]
    /\ lastCall = NoCall
    /\ keptCall = NoCall
    /\ sessions = EmptyMap
    /\ now = 0
    /\ issued = EmptyMap
    /\ lastAuth = NoAuth

\* tokenize(text) is called, once in a run
CallTokenize(text) ==
    /\ pc = "serving"
    /\ ~lastCall.called
    /\ lastCall' = [called |-> TRUE, text |-> text, tokens |-> tokenize(text)]
    /\ UNCHANGED <<pc, source, socCodes, socIndex, socByCode, buildPos,
                   OPENAI_API_KEY, reqs, keptCall>>
    /\ UNCHANGED authVars

NextTok == \E text \in Texts : CallTokenize(text)

SpecTok == InitTok /\ [][NextTok]_vars

-----------------------------------------------------------------------------
(* Claims about tokenize (SpecTok) *)

\* the tokens occur one after the other, without overlap, in s from position
\* from on
RECURSIVE OccurInOrder(_, _, _)
OccurInOrder(s, tokens, from) ==
    \/ tokens = <<>>
    \/ \E p \in from..(Len(s) - Len(Head(tokens)) + 1) :
         /\ SubSeq(s, p, p + Len(Head(tokens)) - 1) = Head(tokens)
         /\ OccurInOrder(s, Tail(tokens), p + Len(Head(tokens)))

\* C12: for every input text, tokenize returns, in input order, only tokens
\* made of characters [a-z0-9], none of length less than 3 and none that is a
\* stop word.
C12_TokenizerProperty ==
    (lastCall.called /\ "tokens" \in DOMAIN lastCall) =>
        /\ \A i \in 1..Len(lastCall.tokens) :
             LET t == lastCall.tokens[i] IN
             /\ \A j \in 1..Len(t) : CharAt(t, j) \in CharsOf(LowerCase) \cup CharsOf(Digits)
             /\ Len(t) >= 3
             /\ t \notin STOP_WORDS
        /\ OccurInOrder(toLowerCase(lastCall.text), lastCall.tokens, 1)

\* C12 witness: a text with a capitalised stop word, punctuation and a word
\* of two characters, of which tokenize kept two tokens.
C12_Witness ==
    /\ lastCall.called /\ "tokens" \in DOMAIN lastCall
    /\ lastCall.text = "The Web-Dev\tIT"
    /\ lastCall.tokens = <<"web", "dev">>

-----------------------------------------------------------------------------
(* Claims about POST /api/soc/match-and-fetch (SpecFetch) *)

\* the labor-market call failed: fetch rejected, the API answered an error
\* status, or its body was not JSON or was null
LmiFailed(q) ==
    \/ "rejected" \in DOMAIN q.lmi
    \/ /\ "parses" \in DOMAIN q.lmi
       /\ (~q.lmi.parses \/ ~q.lmi.httpOk \/ IsNull(q.lmi.body))

\* the labor-market call threw: fetch rejected, or the body was not JSON, or
\* it was null (reading lmiData.data throws)
LmiThrew(q) ==
    \/ "rejected" \in DOMAIN q.lmi
    \/ /\ "parses" \in DOMAIN q.lmi
       /\ (~q.lmi.parses \/ IsNull(q.lmi.body))

\* the code list sent and the matches returned by a finished match-and-fetch
\* request, given which labor-market outcomes count as failed
MafOutcome(q, failed(_)) ==
    LET local == matchSocCodes(q.body.program, MafTopN(q.body)).value
        items == q.payload.data.content.items
        chosen == IF RankerFailed(q) THEN local
                  ELSE [i \in 1..Len(items) |-> Enrich(items[i])]
    IN /\ q.sent.socCodes = [i \in 1..Len(chosen) |-> Get(chosen[i], "code")]
       /\ IF failed(q)
          THEN q.res.status = 500 /\ "matches" \notin DOMAIN q.res
          ELSE /\ q.res.status = 200
               /\ Len(q.res.matches) = Len(chosen)
               /\ \A i \in 1..Len(chosen) : \A f \in DOMAIN chosen[i] :
                     q.res.matches[i][f] = chosen[i][f]

\* C20 as stated: in match-and-fetch the code list sent to the labor-market
\* API and the returned matches are the local matchSocCodes results, unless
\* useAI is set, the ranker is enabled and it returns a non-null list: then
\* they are exactly the ranker's list, unverified codes included; if the
\* ranker fails the local matches are used; if the labor-market call fails
\* (an error status included) the request ends with status 500 and no
\* matches.
C20_MatchAndFetch ==
    \A r \in Reqs :
        LET q == reqs[r] IN
        (q.pc = "done" /\ HasProgram(q) /\ ~TitleThrows /\ q.lmi # NoData) =>
            MafOutcome(q, LmiFailed)

\* C20 as amended: the same, with status 500 and no matches only when the
\* labor-market call throws (fetch rejects, or the body is not JSON or is
\* null); an error status with a JSON body is answered with status 200, the
\* matches and the error body as lmiRaw.
C20_MatchAndFetchThrows ==
    \A r \in Reqs :
        LET q == reqs[r] IN
        (q.pc = "done" /\ HasProgram(q) /\ ~TitleThrows /\ q.lmi # NoData) =>
            /\ MafOutcome(q, LmiThrew)
            /\ ("parses" \in DOMAIN q.lmi /\ q.lmi.parses /\ ~q.lmi.httpOk) =>
                  q.res.status = 200 /\ q.res.lmiRaw = q.lmi.body

\* C20 witness: the ranker returned a list holding the unverified code 99-9
\* to a request with nonempty local matches, the labor-market API answered
\* with occupations, and the response carries the ranker's list.
C20_Witness ==
    \E r \in Reqs :
        LET q == reqs[r] IN
        /\ q.pc = "done" /\ q.ranker = "answered" /\ q.local # <<>>
        /\ "parses" \in DOMAIN q.lmi /\ q.lmi.parses /\ q.lmi.httpOk
        /\ OccupationsOf(q.lmi.body) # <<>>
        /\ q.res.status = 200
        /\ Len(q.res.matches) = 1
        /\ Get(q.res.matches[1], "code") = "99-9" /\ ~q.res.matches[1].verified
        /\ q.sent.socCodes = <<"99-9">>

-----------------------------------------------------------------------------
(* Claims about the handlers together (SpecServe) *)

\* C11: once the server serves, every step of every request (match,
\* match-and-fetch, search, a ranker or labor-market call settling) leaves
\* socIndex, socByCode and socCodes as they were after the build.
C11_IndexReadOnly ==
    [][pc = "serving" =>
         (socIndex' = socIndex /\ socByCode' = socByCode /\ socCodes' = socCodes)]_vars

\* C11 witness: on a built, nonempty index one request is a match awaiting
\* the ranker while the other is a finished match-and-fetch that returned
\* matches.
C11_Witness ==
    /\ pc = "serving"
    /\ DOMAIN socIndex # {}
    /\ \E r1, r2 \in Reqs :
         /\ reqs[r1].pc = "fetch" /\ reqs[r1].local # <<>>
         /\ reqs[r2].pc = "done" /\ reqs[r2].res.status = 200
         /\ "matches" \in DOMAIN reqs[r2].res /\ reqs[r2].res.matches # <<>>

-----------------------------------------------------------------------------
(* Claims about the sessions (SpecAuth) *)

\* the prefixes the claim names
GatedPrefixes == {"/api/schools", "/api/lmi", "/api/skills-library", "/api/soc"}

\* the last step ran the handler of a route under one of the gated prefixes
GatedHandlerRan ==
    /\ lastAuth.op = "request"
    /\ lastAuth.ran
    /\ \E prefix \in GatedPrefixes : UnderPrefix(lastAuth.path, prefix)

\* the code of a login is the access code, as the handler compares it
IsAccessCode(code) ==
    /\ code.type = "string"
    /\ Trim(code.value) = "coursedog-lmi-2026"

\* the first half of C18: a gated handler ran only for a token that a login
\* stored and whose expiry is not earlier than the time of the request
GateHolds ==
    GatedHandlerRan =>
        /\ lastAuth.token \in DOMAIN issued
        /\ lastAuth.token \in DOMAIN sessions
        /\ sessions[lastAuth.token] >= lastAuth.at

\* the second half of C18: a login whose code is missing or wrong answered
\* 400 or 401 and left the session store as it was
FailedLoginHolds ==
    (lastAuth.op = "login" /\ ~IsAccessCode(lastAuth.code)) =>
        /\ lastAuth.status \in {400, 401}
        /\ sessions = lastAuth.before

\* C18: a handler under /api/schools, /api/lmi, /api/skills-library or
\* /api/soc runs only for a request whose x-access-token is a key of the
\* session store put there by a successful login and not yet expired; a login
\* with a missing or wrong access code returns 400 or 401 and leaves the
\* session store unchanged.
C18_AuthGate == GateHolds /\ FailedLoginHolds

\* the last step checked the validity of token t (verify always does;
\* a request does when a requireAuth layer matched its path)
Checked(t) ==
    /\ lastAuth.op \in {"verify", "request"}
    /\ lastAuth.op = "request" => lastAuth.checked
    /\ lastAuth.token = t

\* every stored expiry is the login time plus 24 hours
ExpiryIsLoginPlusTtl ==
    \A t \in DOMAIN sessions :
        /\ t \in DOMAIN issued
        /\ sessions[t] = issued[t] + 24 * 60 * 60 * 1000

\* a check of a token a login returned says valid exactly when the clock has
\* not exceeded login time + 24h; an invalid one leaves the token out of the
\* store
CheckFollowsClock ==
    \A t \in DOMAIN issued :
        Checked(t) =>
            /\ lastAuth.valid <=> (lastAuth.at <= issued[t] + 24 * 60 * 60 * 1000)
            /\ ~lastAuth.valid => t \notin DOMAIN sessions

\* a token leaves the store only in a check of that token made after its
\* expiry, and a token that left the store does not come back
RemovalOnlyByExpiredCheck ==
    /\ \A t \in DOMAIN sessions :
           t \notin DOMAIN sessions' =>
               /\ lastAuth'.op \in {"verify", "request"}
               /\ lastAuth'.token = t
               /\ ~lastAuth'.valid
               /\ lastAuth'.at > sessions[t]
    /\ \A t \in (DOMAIN issued) \ (DOMAIN sessions) : t \notin DOMAIN sessions'
    /\ now' >= now

\* C19: with a non-decreasing clock a token is valid from its login until the
\* clock exceeds login time + 24h (valid still when the clock equals the
\* expiry); the first check after that removes it from the store, every later
\* check of it says invalid, and no other operation removes an entry.
C19_ExpiryIsPermanent ==
    /\ [](ExpiryIsLoginPlusTtl /\ CheckFollowsClock)
    /\ [][RemovalOnlyByExpiredCheck]_vars

\* a token a login returned was checked after its expiry, found invalid, and
\* is out of the store
C19_Witness ==
    \E t \in DOMAIN issued :
        /\ Checked(t)
        /\ ~lastAuth.valid
        /\ lastAuth.at > issued[t] + 24 * 60 * 60 * 1000
        /\ t \notin DOMAIN sessions

=============================================================================
